---- MODULE Spec2Model ----
(***************************************************************************)
(* Model of the RAG backend's request orchestration (src/src/main.py) over *)
(* the SQLite metadata store (src/src/db_utils.py) and the Chroma vector   *)
(* index (src/src/chroma_utils.py).                                        *)
(*                                                                         *)
(* Strings are sequences of one-character strings, so that splitext,       *)
(* lower and endswith are computed as Python computes them.  A storage,    *)
(* index or generation fault is a nondeterministic outcome of the call     *)
(* that can raise.                                                         *)
(***************************************************************************)
EXTENDS Integers, Sequences, FiniteSets, TLC

\* ------------------------------------------------------------------ bounds
\* uuid.uuid4() calls per run (one per accepted upload, one per chat request
\* without a usable session_id).
MaxUuids == 2
\* chunks the text splitter can produce for one document.
MaxChunks == 2
\* rows the chat log can hold.
MaxLogs == 2
\* seconds the wall clock can advance (CURRENT_TIMESTAMP has 1 s resolution).
MaxClock == 1

\* Request slots: each inbound call is handled by one of them.
Procs == {1, 2}
\* Requests that run one after another all use the first slot.
Sequential == {1}

\* ----------------------------------------------------------------- strings
\* The uploaded filenames tried: three accepted and loadable, one accepted
\* by validation in upper case, one with a disallowed extension, one whose
\* only dot is the leading one.
Filenames ==
    { <<"a", ".", "p", "d", "f">>,
      <<"A", ".", "P", "D", "F">>,
      <<"b", ".", "d", "o", "c", "x">>,
      <<"c", ".", "h", "t", "m", "l">>,
      <<"d", ".", "t", "x", "t">>,
      <<".", "p", "d", "f">> }

\* str.lower() on one character of the alphabet used.
LowerChar(c) ==
    CASE c = "A" -> "a"
      [] c = "P" -> "p"
      [] c = "D" -> "d"
      [] c = "F" -> "f"
      [] OTHER -> c

\* str.lower()
lower(s) == [i \in 1..Len(s) |-> LowerChar(s[i])]

\* str.rfind(c), 1-based; 0 when c does not occur (Python's -1).
rfind(s, c) ==
    IF \E i \in 1..Len(s) : s[i] = c
    THEN CHOOSE i \in 1..Len(s) : s[i] = c /\ \A j \in (i+1)..Len(s) : s[j] # c
    ELSE 0

\* os.path.splitext(p): <<root, ext>>; the extension starts at the last dot
\* that follows the last separator, unless only dots precede it in the name.
splitext(p) ==
    LET sepIndex == rfind(p, "/")
        dotIndex == rfind(p, ".")
    IN  IF dotIndex > sepIndex
           /\ \E i \in (sepIndex + 1)..(dotIndex - 1) : p[i] # "."
        THEN <<SubSeq(p, 1, dotIndex - 1), SubSeq(p, dotIndex, Len(p))>>
        ELSE <<p, <<>>>>

\* str.endswith(suffix)
endswith(s, suffix) ==
    /\ Len(s) >= Len(suffix)
    /\ SubSeq(s, Len(s) - Len(suffix) + 1, Len(s)) = suffix

\* str(uuid.uuid4()): the n-th identifier drawn; two draws never agree.
uuid4(n) == <<"uuid4", ToString(n)>>

allowed_extensions ==
    { <<".", "p", "d", "f">>,
      <<".", "d", "o", "c", "x">>,
      <<".", "h", "t", "m", "l">> }

\* file_extension = os.path.splitext(file.filename)[1].lower()
file_extension(filename) == lower(splitext(filename)[2])

\* temp_file_path = f"temp_{uuid.uuid4()}_{file.filename}"
temp_file_path(n, filename) == <<"temp_">> \o uuid4(n) \o <<"_">> \o filename

\* ------------------------------------------------------- exceptions, details
NoExc == [type |-> "none", status_code |-> 0, detail |-> <<>>]
HTTPException(code, detail) ==
    [type |-> "HTTPException", status_code |-> code, detail |-> detail]
\* an sqlite3 error raised by a store call
StorageFault == [type |-> "sqlite3.Error", status_code |-> 0, detail |-> <<"sqlite3.Error">>]
\* an OSError raised while the upload is written to the temporary file
SaveFault == [type |-> "OSError", status_code |-> 0, detail |-> <<"OSError">>]

\* f"{e}": an HTTPException prints as "<status_code>: <detail>", any other
\* exception as its message.
Str(e) ==
    IF e.type = "HTTPException"
    THEN <<ToString(e.status_code), ": ">> \o e.detail
    ELSE e.detail

UnsupportedTypeDetail == <<"Tipo de arquivo nao suportado. Tipos permitidos: .pdf, .docx, .html">>
IndexFailedDetail == <<"Falha ao indexar ">>
UploadErrorDetail(e) == <<"Ocorreu um erro ao processar o upload: ">> \o Str(e)
ChromaDeleteFailedDetail == <<"Falha ao excluir documento do Chroma.">>
RecordDeleteFailedDetail == <<"Excluido do Chroma, mas falha ao excluir documento do banco de dados.">>
DeleteErrorDetail(e) == <<"Ocorreu um erro ao excluir o documento: ">> \o Str(e)
\* The response to an exception no handler caught.
InternalServerError == <<"Internal Server Error">>

\* ------------------------------------------------------------------- state
VARIABLES
    document_store,   \* table document_store: rows [id, filename]
    document_seq,     \* AUTOINCREMENT: the largest id ever assigned
    vectorstore,      \* Chroma collection: chunks [file_id, k]
    temp_files,       \* temporary files that exist on disk
    uuids,            \* uuid.uuid4() calls made so far
    req,              \* per slot: the document request in progress
    uploaded,         \* history: file_ids whose upload returned success and
                      \* that no delete request has removed since
    deleted,          \* history: file_ids of successful uploads that a
                      \* delete request removed, answering success
    delete_faulted,   \* history: ids of stored records on which a
                      \* delete_document_record call raised
    application_logs, \* table application_logs, in rowid order
    clock,            \* wall clock, in seconds
    chat,             \* per slot: the chat request in progress
    turns,            \* history: the chat turns answered with success, as
                      \* [given, session_id, question, answer] of the request
                      \* and its response, in the order they returned
    may_fault,        \* environment: whether a store, index or file call
                      \* of a document request may raise in this behaviour
    raced             \* history: file_ids named by a delete request that
                      \* was in progress while the upload registering the
                      \* id was between its insert and its index call

doc_vars == <<document_store, document_seq, vectorstore, temp_files, req,
              uploaded, deleted, delete_faulted>>
chat_vars == <<application_logs, clock, chat, turns>>
env_vars == <<may_fault, raced>>
vars == <<doc_vars, uuids, chat_vars, env_vars>>

\* A slot with no document request.
IdleReq ==
    [ kind |-> "none", pc |-> "idle",
      filename |-> <<>>, temp_file_path |-> <<>>,
      has_file_id |-> FALSE, file_id |-> 0,
      success |-> "unset", chroma_delete_success |-> "unset",
      exc |-> NoExc, status |-> 0, detail |-> <<>>, documents |-> {},
      \* history of this request: the stores as they were when it started,
      \* kept for a request that started while no other was in progress
      store0 |-> {}, temp0 |-> {}, vectors0 |-> {},
      record_delete_calls |-> 0, record_delete_done |-> 0,
      record_delete_raised |-> FALSE ]

\* A slot with no chat request.
IdleChat ==
    [ pc |-> "idle", given |-> [present |-> FALSE, value |-> <<>>],
      session_id |-> <<>>, question |-> "", model |-> "",
      chat_history |-> <<>>, answer |-> "", status |-> 0,
      generated |-> FALSE,
      \* history of this request: the chat log when it started
      logs0 |-> <<>>,
      response |-> [answer |-> "", session_id |-> <<>>, model |-> ""] ]

Start ==
    /\ document_store = {}
    /\ document_seq = 0
    /\ vectorstore = {}
    /\ temp_files = {}
    /\ uuids = 0
    /\ req = [p \in Procs |-> IdleReq]
    /\ uploaded = {}
    /\ deleted = {}
    /\ delete_faulted = {}
    /\ application_logs = <<>>
    /\ clock = 0
    /\ chat = [p \in Procs |-> IdleChat]
    /\ turns = <<>>
    /\ raced = {}

\* Any call into the store, the index or the file system may raise.
Init == Start /\ may_fault = TRUE

\* No call raises (the stores and the index are healthy).
InitNoFault == Start /\ may_fault = FALSE

\* The outcomes of a call that may raise: TRUE is "it raised".
FaultChoices == IF may_fault THEN BOOLEAN ELSE {FALSE}

\* No request is in progress and every response has been delivered.
Quiescent == \A q \in Procs : req[q].pc = "idle" /\ chat[q].pc = "idle"

\* What a request that starts now records of a store: its content when the
\* request runs alone, nothing when it starts beside another request.
AtStart(content) == IF Quiescent THEN content ELSE {}

\* ---------------------------------------------------------- metadata store
\* Mutant: the id column without AUTOINCREMENT, where SQLite hands out the
\* largest id in the table plus one and so reuses the id of a deleted row.
insert_document_record_reusing_ids(store, seq, filename) ==
    LET ids == {r.id : r \in store}
        top == IF ids = {} THEN 0 ELSE CHOOSE m \in ids : \A i \in ids : i <= m
    IN  [ store |-> store \cup {[id |-> top + 1, filename |-> filename]},
          file_id |-> top + 1 ]

\* INSERT INTO document_store (filename): the new table and cursor.lastrowid.
insert_document_record(store, seq, filename) ==
    [ store |-> store \cup {[id |-> seq + 1, filename |-> filename]},
      file_id |-> seq + 1 ]

\* Mutant: the DELETE is never committed; the row stays.
delete_document_record_uncommitted(store, file_id) ==
    [store |-> store, ret |-> TRUE]

\* DELETE FROM document_store WHERE id = ?; succeeds when no row matches.
\* [store, ret]: the function returns True whenever it returns.
delete_document_record(store, file_id) ==
    [store |-> {r \in store : r.id # file_id}, ret |-> TRUE]

\* SELECT id, filename, ... FROM document_store (the ORDER BY
\* upload_timestamp DESC is not modelled: the result is taken as a set).
get_all_documents(store) == store

\* ---------------------------------------------------------- document indexer
\* The loader load_and_split_document picks for file_path, "ValueError" when
\* no branch matches.
loader_for(file_path) ==
    IF endswith(file_path, <<".", "p", "d", "f">>) THEN "PyPDFLoader"
    ELSE IF endswith(file_path, <<".", "d", "o", "c", "x">>) THEN "Docx2txtLoader"
    ELSE IF endswith(file_path, <<".", "h", "t", "m", "l">>) THEN "UnstructuredHTMLLoader"
    ELSE "ValueError"

\* load_and_split_document(file_path) of a file whose content splits into n
\* chunks: [raised, splits]; loading raises when the loader faults.
load_and_split_document(file_path, n, loader_faults) ==
    IF loader_for(file_path) = "ValueError" \/ loader_faults
    THEN [raised |-> TRUE, splits |-> {}]
    ELSE [raised |-> FALSE,
          splits |-> {[k |-> k] : k \in 1..n}]

\* Mutant: the splits are added without their file_id metadata (here: 0).
index_document_to_chroma_unstamped(vs, file_path, file_id, n, loader_faults, add_faults) ==
    LET loaded == load_and_split_document(file_path, n, loader_faults)
        stamped == {[file_id |-> 0, k |-> s.k] : s \in loaded.splits}
    IN  IF loaded.raised \/ add_faults \/ stamped = {}
        THEN [vectorstore |-> vs, ret |-> FALSE]
        ELSE [vectorstore |-> vs \cup stamped, ret |-> TRUE]

\* index_document_to_chroma(file_path, file_id): stamps every split with
\* file_id and adds them; returns False (never raises) when loading or
\* vectorstore.add_documents raised.  add_documents adds all the splits or
\* none, and raises on an empty batch (Chroma refuses an empty list of
\* ids).  [vectorstore, ret]
index_document_to_chroma(vs, file_path, file_id, n, loader_faults, add_faults) ==
    LET loaded == load_and_split_document(file_path, n, loader_faults)
        stamped == {[file_id |-> file_id, k |-> s.k] : s \in loaded.splits}
    IN  IF loaded.raised \/ add_faults \/ stamped = {}
        THEN [vectorstore |-> vs, ret |-> FALSE]
        ELSE [vectorstore |-> vs \cup stamped, ret |-> TRUE]

\* Mutant: the filter names a metadata key no chunk carries, so the delete
\* matches nothing and still reports success.
delete_doc_from_chroma_matching_nothing(vs, file_id, faults) ==
    IF faults
    THEN [vectorstore |-> vs, ret |-> FALSE]
    ELSE [vectorstore |-> vs, ret |-> TRUE]

\* delete_doc_from_chroma(file_id): deletes where file_id matches; returns
\* False when vectorstore.get or the collection's delete raised.
delete_doc_from_chroma(vs, file_id, faults) ==
    IF faults
    THEN [vectorstore |-> vs, ret |-> FALSE]
    ELSE [vectorstore |-> {c \in vs : c.file_id # file_id}, ret |-> TRUE]

\* The file_ids a delete request may name: every id an upload can be given,
\* and one that is never assigned.
FileIds == 1..(MaxUuids + 1)

\* ------------------------------------------------------------------ upload
\* Mutant: no extension check.
extension_always_allowed(filename) == TRUE

\* main.py 89: the extension check.
extension_allowed(filename) == file_extension(filename) \in allowed_extensions

\* main.py 84-95: validation; a disallowed extension is answered 400 before
\* the try block, an allowed one gets its temporary path.
UploadStart(p, filename) ==
    /\ req[p].pc = "idle"
    /\ LET r0 == [IdleReq EXCEPT !.kind = "upload", !.filename = filename,
                                 !.store0 = AtStart(document_store),
                                 !.temp0 = AtStart(temp_files),
                                 !.vectors0 = AtStart(vectorstore)]
       IN  IF ~extension_allowed(filename)
           THEN /\ req' = [req EXCEPT ![p] =
                              [r0 EXCEPT !.pc = "done", !.status = 400,
                                         !.detail = UnsupportedTypeDetail]]
                /\ UNCHANGED uuids
           ELSE /\ uuids < MaxUuids
                /\ uuids' = uuids + 1
                /\ req' = [req EXCEPT ![p] =
                              [r0 EXCEPT !.pc = "save",
                                         !.temp_file_path =
                                             temp_file_path(uuids + 1, filename)]]
    /\ UNCHANGED <<document_store, document_seq, vectorstore, temp_files,
                   uploaded, deleted, delete_faulted,
                   chat_vars, env_vars>>

\* main.py 99-100: open() creates the file and copyfileobj fills it; either
\* may raise.
UploadSave(p) ==
    /\ req[p].kind = "upload" /\ req[p].pc = "save"
    /\ \E outcome \in {"saved"} \cup (IF may_fault
                                   THEN {"open_raises", "copy_raises"}
                                   ELSE {}) :
        /\ temp_files' = IF outcome = "open_raises" THEN temp_files
                         ELSE temp_files \cup {req[p].temp_file_path}
        /\ req' = [req EXCEPT ![p] =
                      IF outcome = "saved"
                      THEN [@ EXCEPT !.pc = "insert"]
                      ELSE [@ EXCEPT !.pc = "except", !.exc = SaveFault]]
    /\ UNCHANGED <<document_store, document_seq, vectorstore, uuids,
                   uploaded, deleted, delete_faulted,
                   chat_vars, env_vars>>

\* main.py 104: file_id = insert_document_record(file.filename), or the
\* store raises and file_id stays unbound.
UploadInsert(p) ==
    /\ req[p].kind = "upload" /\ req[p].pc = "insert"
    /\ \E fault \in FaultChoices :
        IF fault
        THEN /\ req' = [req EXCEPT ![p] =
                           [@ EXCEPT !.pc = "except", !.exc = StorageFault]]
             /\ UNCHANGED <<document_store, document_seq, raced>>
        ELSE LET ins == insert_document_record(document_store, document_seq,
                                               req[p].filename)
             IN  /\ document_store' = ins.store
                 /\ document_seq' = ins.file_id
                 /\ req' = [req EXCEPT ![p] =
                               [@ EXCEPT !.pc = "index", !.has_file_id = TRUE,
                                         !.file_id = ins.file_id]]
                 /\ raced' = raced \cup
                        {f \in {ins.file_id} :
                            \E q \in Procs : /\ req[q].kind = "delete"
                                             /\ req[q].pc \in {"chroma", "record"}
                                             /\ req[q].file_id = f}
    /\ UNCHANGED <<vectorstore, temp_files, uuids, uploaded, deleted,
                   delete_faulted, chat_vars, may_fault>>

\* main.py 108-112: success = index_document_to_chroma(temp_file_path,
\* file_id); on success the handler returns the file_id.
UploadIndex(p) ==
    /\ req[p].kind = "upload" /\ req[p].pc = "index"
    /\ \E n \in 0..MaxChunks, loader_faults \in FaultChoices, add_faults \in FaultChoices :
        LET res == index_document_to_chroma(vectorstore, req[p].temp_file_path,
                                            req[p].file_id, n,
                                            loader_faults, add_faults)
        IN  /\ vectorstore' = res.vectorstore
            /\ req' = [req EXCEPT ![p] =
                          IF res.ret
                          THEN [@ EXCEPT !.pc = "finally", !.success = "true",
                                         !.status = 200]
                          ELSE [@ EXCEPT !.pc = "compensate", !.success = "false"]]
    /\ UNCHANGED <<document_store, document_seq, temp_files, uuids, uploaded,
                   deleted, delete_faulted, chat_vars, env_vars>>

\* main.py 113-117: delete_document_record(file_id), then raise
\* HTTPException(500) inside the try block; the delete itself may raise.
UploadCompensate(p) ==
    /\ req[p].kind = "upload" /\ req[p].pc = "compensate"
    /\ \E fault \in FaultChoices :
        IF fault
        THEN /\ delete_faulted' = delete_faulted \cup {req[p].file_id}
             /\ req' = [req EXCEPT ![p] =
                           [@ EXCEPT !.pc = "except", !.exc = StorageFault,
                                     !.record_delete_calls = @ + 1,
                                     !.record_delete_raised = TRUE]]
             /\ UNCHANGED document_store
        ELSE /\ document_store' =
                    delete_document_record(document_store, req[p].file_id).store
             /\ req' = [req EXCEPT ![p] =
                           [@ EXCEPT !.pc = "except",
                                     !.exc = HTTPException(500, IndexFailedDetail),
                                     !.record_delete_calls = @ + 1,
                                     !.record_delete_done = @ + 1]]
             /\ delete_faulted' = delete_faulted \ {req[p].file_id}
    /\ UNCHANGED <<document_seq, vectorstore, temp_files, uuids, uploaded,
                   deleted, chat_vars, env_vars>>

\* main.py 118-123: except Exception (it also catches the HTTPException of
\* line 117): delete the record if file_id is bound, then raise
\* HTTPException(500).  When this delete raises, the exception leaves the
\* handler uncaught and the server answers 500.
UploadExcept(p) ==
    /\ req[p].kind = "upload" /\ req[p].pc = "except"
    /\ IF req[p].has_file_id
       THEN \E fault \in FaultChoices :
            IF fault
            THEN /\ delete_faulted' = delete_faulted \cup {req[p].file_id}
                 /\ req' = [req EXCEPT ![p] =
                               [@ EXCEPT !.pc = "finally", !.status = 500,
                                         !.detail = InternalServerError,
                                         !.exc = StorageFault,
                                         !.record_delete_calls = @ + 1,
                                         !.record_delete_raised = TRUE]]
                 /\ UNCHANGED document_store
            ELSE /\ document_store' =
                        delete_document_record(document_store, req[p].file_id).store
                 /\ req' = [req EXCEPT ![p] =
                               [@ EXCEPT !.pc = "finally", !.status = 500,
                                         !.detail = UploadErrorDetail(req[p].exc),
                                         !.record_delete_calls = @ + 1,
                                         !.record_delete_done = @ + 1]]
                 /\ delete_faulted' = delete_faulted \ {req[p].file_id}
       ELSE /\ req' = [req EXCEPT ![p] =
                          [@ EXCEPT !.pc = "finally", !.status = 500,
                                    !.detail = UploadErrorDetail(req[p].exc)]]
            /\ UNCHANGED <<document_store, delete_faulted>>
    /\ UNCHANGED <<document_seq, vectorstore, temp_files, uuids, uploaded,
                   deleted, chat_vars, env_vars>>

\* Mutant: the temporary file is removed at the end of the try block only,
\* so an upload that failed leaves it behind.
UploadFinally_on_success_only(p) ==
    /\ req[p].kind = "upload" /\ req[p].pc = "finally"
    /\ temp_files' = IF req[p].status = 200
                     THEN temp_files \ {req[p].temp_file_path} ELSE temp_files
    /\ uploaded' = IF req[p].status = 200
                   THEN uploaded \cup {req[p].file_id} ELSE uploaded
    /\ req' = [req EXCEPT ![p] = [@ EXCEPT !.pc = "done"]]
    /\ UNCHANGED <<document_store, document_seq, vectorstore, uuids, deleted,
                   delete_faulted, chat_vars, env_vars>>

\* main.py 124-128: finally: remove the temporary file if it exists; then
\* the response leaves.
UploadFinally(p) ==
    /\ req[p].kind = "upload" /\ req[p].pc = "finally"
    /\ temp_files' = temp_files \ {req[p].temp_file_path}
    /\ uploaded' = IF req[p].status = 200
                   THEN uploaded \cup {req[p].file_id} ELSE uploaded
    /\ req' = [req EXCEPT ![p] = [@ EXCEPT !.pc = "done"]]
    /\ UNCHANGED <<document_store, document_seq, vectorstore, uuids, deleted,
                   delete_faulted, chat_vars, env_vars>>

\* ------------------------------------------------------------------ delete
\* main.py 164-165: the request names any file_id.
DeleteStart(p, file_id) ==
    /\ req[p].pc = "idle"
    /\ req' = [req EXCEPT ![p] =
                  [IdleReq EXCEPT !.kind = "delete", !.pc = "chroma",
                                  !.file_id = file_id, !.has_file_id = TRUE,
                                  !.store0 = AtStart(document_store),
                                  !.temp0 = AtStart(temp_files),
                                  !.vectors0 = AtStart(vectorstore)]]
    /\ raced' = raced \cup
           {f \in {file_id} :
               \E q \in Procs : /\ req[q].kind = "upload"
                                /\ req[q].pc = "index"
                                /\ req[q].file_id = f}
    /\ UNCHANGED <<document_store, document_seq, vectorstore, temp_files, uuids,
                   uploaded, deleted, delete_faulted,
                   chat_vars, may_fault>>

\* Mutant: the record is deleted whatever delete_doc_from_chroma returned.
DeleteChroma_result_ignored(p) ==
    /\ req[p].kind = "delete" /\ req[p].pc = "chroma"
    /\ \E faults \in FaultChoices :
        LET res == delete_doc_from_chroma(vectorstore, req[p].file_id, faults)
        IN  /\ vectorstore' = res.vectorstore
            /\ req' = [req EXCEPT ![p] =
                          [@ EXCEPT !.pc = "record",
                                    !.chroma_delete_success =
                                        IF res.ret THEN "true" ELSE "false"]]
    /\ UNCHANGED <<document_store, document_seq, temp_files, uuids, uploaded,
                   deleted, delete_faulted, chat_vars, env_vars>>

\* main.py 169-171, 184-190: chroma_delete_success =
\* delete_doc_from_chroma(file_id); on False the HTTPException raised at
\* line 187 is caught at line 188 and raised again with the wrapped detail.
DeleteChroma(p) ==
    /\ req[p].kind = "delete" /\ req[p].pc = "chroma"
    /\ \E faults \in FaultChoices :
        LET res == delete_doc_from_chroma(vectorstore, req[p].file_id, faults)
        IN  /\ vectorstore' = res.vectorstore
            /\ req' = [req EXCEPT ![p] =
                          IF res.ret
                          THEN [@ EXCEPT !.pc = "record",
                                         !.chroma_delete_success = "true"]
                          ELSE [@ EXCEPT !.pc = "done",
                                         !.chroma_delete_success = "false",
                                         !.status = 500,
                                         !.exc = HTTPException(500, ChromaDeleteFailedDetail),
                                         !.detail = DeleteErrorDetail(
                                             HTTPException(500, ChromaDeleteFailedDetail))]]
    /\ UNCHANGED <<document_store, document_seq, temp_files, uuids, uploaded,
                   deleted, delete_faulted, chat_vars, env_vars>>

\* main.py 174-183, 188-190: db_delete_success =
\* delete_document_record(file_id); the handler answers 200 on True and
\* raises the "deleted from Chroma, but ..." HTTPException on False; when the
\* store raises, line 188 catches it and answers with the wrapped detail.
DeleteRecord(p) ==
    /\ req[p].kind = "delete" /\ req[p].pc = "record"
    /\ \E fault \in FaultChoices :
        IF fault
        THEN /\ delete_faulted' = delete_faulted \cup
                    {r.id : r \in {x \in document_store : x.id = req[p].file_id}}
             /\ req' = [req EXCEPT ![p] =
                           [@ EXCEPT !.pc = "done", !.status = 500,
                                     !.exc = StorageFault,
                                     !.detail = DeleteErrorDetail(StorageFault),
                                     !.record_delete_calls = @ + 1,
                                     !.record_delete_raised = TRUE]]
             /\ UNCHANGED <<document_store, uploaded, deleted>>
        ELSE LET del == delete_document_record(document_store, req[p].file_id)
                 db_delete_success == del.ret
             IN  /\ document_store' = del.store
                 /\ deleted' = IF db_delete_success /\ req[p].file_id \in uploaded
                               THEN deleted \cup {req[p].file_id} ELSE deleted
                 /\ uploaded' = IF db_delete_success
                                THEN uploaded \ {req[p].file_id} ELSE uploaded
                 /\ delete_faulted' = delete_faulted \ {req[p].file_id}
                 /\ req' = [req EXCEPT ![p] =
                        IF db_delete_success
                        THEN [@ EXCEPT !.pc = "done", !.status = 200,
                                       !.record_delete_calls = @ + 1,
                                       !.record_delete_done = @ + 1]
                        ELSE [@ EXCEPT !.pc = "done", !.status = 500,
                                       !.exc = HTTPException(500, RecordDeleteFailedDetail),
                                       !.detail = DeleteErrorDetail(
                                           HTTPException(500, RecordDeleteFailedDetail)),
                                       !.record_delete_calls = @ + 1,
                                       !.record_delete_done = @ + 1]]
    /\ UNCHANGED <<document_seq, vectorstore, temp_files, uuids, chat_vars, env_vars>>

\* -------------------------------------------------------------------- list
\* main.py 139-146: documents = get_all_documents(), or 500 when it raises.
ListDocuments(p) ==
    /\ req[p].pc = "idle"
    /\ \E fault \in FaultChoices :
        req' = [req EXCEPT ![p] =
                   IF fault
                   THEN [IdleReq EXCEPT !.kind = "list", !.pc = "done",
                                        !.status = 500, !.exc = StorageFault]
                   ELSE [IdleReq EXCEPT !.kind = "list", !.pc = "done",
                                        !.status = 200,
                                        !.documents = get_all_documents(document_store)]]
    /\ UNCHANGED <<document_store, document_seq, vectorstore, temp_files, uuids,
                   uploaded, deleted, delete_faulted,
                   chat_vars, env_vars>>

\* The response has been delivered: the slot is free again.
Finish(p) ==
    /\ req[p].pc = "done"
    /\ req' = [req EXCEPT ![p] = IdleReq]
    /\ UNCHANGED <<document_store, document_seq, vectorstore, temp_files, uuids,
                   uploaded, deleted, delete_faulted,
                   chat_vars, env_vars>>

\* ------------------------------------------------------------ specification
\* Document requests, run one after another: a request starts only when no
\* other is in progress.
Next ==
    \E p \in Sequential :
        \/ Quiescent /\ \E filename \in Filenames : UploadStart(p, filename)
        \/ Quiescent /\ \E file_id \in FileIds : DeleteStart(p, file_id)
        \/ Quiescent /\ ListDocuments(p)
        \/ UploadSave(p)
        \/ UploadInsert(p)
        \/ UploadIndex(p)
        \/ UploadCompensate(p)
        \/ UploadExcept(p)
        \/ UploadFinally(p)
        \/ DeleteChroma(p)
        \/ DeleteRecord(p)
        \/ Finish(p)

Spec == Init /\ [][Next]_vars

\* Upload and delete requests running concurrently, one per slot: each store
\* call and each index call is one step, and the steps of the requests in
\* progress interleave freely.
\* The slots are interchangeable: a request takes the lowest free one.
LowestFree(p) == \A q \in Procs : q < p => req[q].pc # "idle"

\* The files uploaded and the ids named by the concurrent requests: an id
\* that is never assigned behaves as one that is not assigned yet.
ConcurrentFilenames == {<<"a", ".", "p", "d", "f">>}
ConcurrentFileIds == 1..MaxUuids

NextConcurrent ==
    \E p \in Procs :
        \/ LowestFree(p) /\ \E filename \in ConcurrentFilenames :
                                UploadStart(p, filename)
        \/ LowestFree(p) /\ \E file_id \in ConcurrentFileIds :
                                DeleteStart(p, file_id)
        \/ UploadSave(p)
        \/ UploadInsert(p)
        \/ UploadIndex(p)
        \/ UploadCompensate(p)
        \/ UploadExcept(p)
        \/ UploadFinally(p)
        \/ DeleteChroma(p)
        \/ DeleteRecord(p)
        \/ Finish(p)

\* The concurrent requests against healthy stores: no call raises.
SpecConcurrent == InitNoFault /\ [][NextConcurrent]_vars

\* -------------------------------------------------------------------- chat
\* The questions asked, the answers the pipeline may give, the models named.
Questions == {"q1", "q2"}
Answers == {"a1"}
Models == {"gemini-1.5-flash"}

\* The session_id field of a request: absent (None), or a string: empty, one
\* the client chose, or an identifier an earlier response returned.
GivenSessionIds ==
    {[present |-> FALSE, value |-> <<>>]} \cup
    {[present |-> TRUE, value |-> v] :
        v \in {<<>>, <<"s", "1">>} \cup
              {turns[i].session_id : i \in 1..Len(turns)}}

\* Python truth of an optional string: None and "" are false.
truthy(given) == given.present /\ Len(given.value) > 0

\* Mutant: the question and the answer bound to each other's column.
insert_application_logs_swapped(logs, session_id, user_query, gpt_response, model, now) ==
    Append(logs, [id |-> Len(logs) + 1, session_id |-> session_id,
                  user_query |-> gpt_response, gpt_response |-> user_query,
                  model |-> model, created_at |-> now])

\* INSERT INTO application_logs (...): the row gets the next id and
\* created_at = CURRENT_TIMESTAMP.
insert_application_logs(logs, session_id, user_query, gpt_response, model, now) ==
    Append(logs, [id |-> Len(logs) + 1, session_id |-> session_id,
                  user_query |-> user_query, gpt_response |-> gpt_response,
                  model |-> model, created_at |-> now])

\* x placed before the first row of the ordered sequence that is not older
\* than x.
RECURSIVE insert_ordered(_, _)
insert_ordered(x, rows) ==
    IF rows = <<>> THEN <<x>>
    ELSE IF Head(rows).created_at >= x.created_at THEN <<x>> \o rows
    ELSE <<Head(rows)>> \o insert_ordered(x, Tail(rows))

\* Mutant: ORDER BY created_at DESC.
RECURSIVE order_by_created_at_desc(_)
order_by_created_at_desc(rows) ==
    IF rows = <<>> THEN <<>>
    ELSE LET rest == order_by_created_at_desc(Tail(rows))
             older == SelectSeq(rest, LAMBDA r : r.created_at < Head(rows).created_at)
             newer == SelectSeq(rest, LAMBDA r : r.created_at >= Head(rows).created_at)
         IN  newer \o <<Head(rows)>> \o older

\* ORDER BY created_at over rows scanned in rowid order: SQLite's sorter
\* keeps rows with equal created_at in scan order.
RECURSIVE order_by_created_at(_)
order_by_created_at(rows) ==
    IF rows = <<>> THEN <<>>
    ELSE insert_ordered(Head(rows), order_by_created_at(Tail(rows)))

\* get_chat_history(session_id): the session's rows ordered by created_at,
\* each expanded into a human message and an ai message.
get_chat_history(logs, session_id) ==
    LET rows == order_by_created_at(
                    SelectSeq(logs, LAMBDA r : r.session_id = session_id))
    IN  [i \in 1..(2 * Len(rows)) |->
            IF i % 2 = 1
            THEN [role |-> "human", content |-> rows[(i + 1) \div 2].user_query]
            ELSE [role |-> "ai", content |-> rows[i \div 2].gpt_response]]

\* Mutant: a supplied session_id is ignored; every request gets a new one.
session_id_always_generated(given, n) == uuid4(n)

\* main.py 41: session_id = query_input.session_id or str(uuid.uuid4()),
\* where n is the number of the uuid that would be drawn.
session_id_or_uuid4(given, n) ==
    IF truthy(given) THEN given.value ELSE uuid4(n)

\* main.py 41-43: the session id is settled before the try block.
ChatStart(p, given, question, model) ==
    /\ chat[p].pc = "idle"
    /\ ~truthy(given) => uuids < MaxUuids
    /\ uuids' = IF truthy(given) THEN uuids ELSE uuids + 1
    /\ chat' = [chat EXCEPT ![p] =
                   [IdleChat EXCEPT !.pc = "history", !.given = given,
                                    !.generated = ~truthy(given),
                                    !.logs0 = application_logs,
                                    !.session_id =
                                        session_id_or_uuid4(given, uuids + 1),
                                    !.question = question, !.model = model]]
    /\ UNCHANGED <<doc_vars, env_vars, application_logs, clock, turns>>

\* main.py 47, 64-67: chat_history = get_chat_history(session_id), or 500
\* when the store raises.
ChatHistory(p) ==
    /\ chat[p].pc = "history"
    /\ \E fault \in BOOLEAN :
        chat' = [chat EXCEPT ![p] =
                    IF fault
                    THEN [@ EXCEPT !.pc = "done", !.status = 500]
                    ELSE [@ EXCEPT !.pc = "invoke",
                                   !.chat_history =
                                       get_chat_history(application_logs,
                                                        chat[p].session_id)]]
    /\ UNCHANGED <<doc_vars, env_vars, uuids, application_logs, clock, turns>>

\* main.py 49-56, 64-67: the pipeline is built and invoked with the question
\* and the history; it returns an answer, or raises and the response is 500.
ChatInvoke(p) ==
    /\ chat[p].pc = "invoke"
    /\ \/ \E answer \in Answers :
            chat' = [chat EXCEPT ![p] = [@ EXCEPT !.pc = "persist",
                                                  !.answer = answer]]
       \/ chat' = [chat EXCEPT ![p] = [@ EXCEPT !.pc = "done", !.status = 500]]
    /\ UNCHANGED <<doc_vars, env_vars, uuids, application_logs, clock, turns>>

\* main.py 59-63, 64-67: insert_application_logs(session_id, question,
\* answer, model), then the response; 500 when the insert raises.
ChatPersist(p) ==
    /\ chat[p].pc = "persist"
    /\ \/ /\ Len(application_logs) < MaxLogs
          /\ application_logs' =
                insert_application_logs(application_logs, chat[p].session_id,
                                        chat[p].question, chat[p].answer,
                                        chat[p].model, clock)
          /\ UNCHANGED clock
          /\ chat' = [chat EXCEPT ![p] =
                         [@ EXCEPT !.pc = "done", !.status = 200,
                                   !.response = [answer |-> chat[p].answer,
                                                 session_id |-> chat[p].session_id,
                                                 model |-> chat[p].model]]]
          /\ turns' = Append(turns, [given |-> chat[p].given,
                                     session_id |-> chat[p].session_id,
                                     question |-> chat[p].question,
                                     answer |-> chat[p].answer])
       \/ /\ chat' = [chat EXCEPT ![p] = [@ EXCEPT !.pc = "done", !.status = 500]]
          /\ UNCHANGED <<application_logs, clock, turns>>
    /\ UNCHANGED <<doc_vars, env_vars, uuids>>

\* The response has been delivered: the slot is free again.
ChatFinish(p) ==
    /\ chat[p].pc = "done"
    /\ chat' = [chat EXCEPT ![p] = IdleChat]
    /\ UNCHANGED <<doc_vars, env_vars, uuids, application_logs, clock, turns>>

\* A second passes on the wall clock; only the time between two inserts
\* shows in the log, so the clock is advanced while a request waits to
\* persist its turn.
Tick ==
    /\ clock < MaxClock
    /\ \E p \in Procs : chat[p].pc = "persist"
    /\ clock' = clock + 1
    /\ UNCHANGED <<doc_vars, env_vars, uuids, application_logs, chat, turns>>

\* Chat requests, run one after another.
NextChat ==
    \/ Tick
    \/ \E p \in Sequential :
        \/ Quiescent /\ \E given \in GivenSessionIds, question \in Questions,
                           model \in Models : ChatStart(p, given, question, model)
        \/ ChatHistory(p)
        \/ ChatInvoke(p)
        \/ ChatPersist(p)
        \/ ChatFinish(p)

SpecChat == Init /\ [][NextChat]_vars

\* ------------------------------------------------------------ the claims
HasRecord(f) == \E r \in document_store : r.id = f
HasChunks(f) == \E c \in vectorstore : c.file_id = f
\* detail carries the message msg
Carries(detail, msg) ==
    \E i \in 1..Len(detail) : SubSeq(detail, i, i + Len(msg) - 1) = msg

\* An upload request that has returned after its indexing step reported
\* failure.
IndexingFailed(p) ==
    req[p].kind = "upload" /\ req[p].pc = "done" /\ req[p].success = "false"

IndexDeletionFailed(p) ==
    /\ req[p].kind = "delete" /\ req[p].pc = "done"
    /\ req[p].chroma_delete_success = "false"

\* C2: a delete request whose vector-index deletion fails leaves the
\* document store as it was, never calls delete_document_record, keeps the
\* record it named, and responds HTTP 500.
C2_AbortBeforeRecordDelete ==
    \A p \in Procs :
        IndexDeletionFailed(p) =>
            /\ document_store = req[p].store0
            /\ req[p].record_delete_calls = 0
            /\ (\E r \in req[p].store0 : r.id = req[p].file_id)
                   => HasRecord(req[p].file_id)
            /\ req[p].status = 500

C2_Witness ==
    \E p \in Procs :
        /\ IndexDeletionFailed(p)
        /\ \E r \in req[p].store0 : r.id = req[p].file_id
        /\ HasRecord(req[p].file_id)
        /\ req[p].status = 500

\* C3: an upload whose extension is outside the allowed set is answered
\* HTTP 400 at once, with no record inserted, no temporary file created and
\* the vector index untouched.
C3_RejectedBeforeSideEffects ==
    \A p \in Procs :
        (req[p].kind = "upload"
            /\ file_extension(req[p].filename) \notin allowed_extensions) =>
            /\ req[p].pc = "done"
            /\ req[p].status = 400
            /\ req[p].temp_file_path = <<>>
            /\ document_store = req[p].store0
            /\ temp_files = req[p].temp0
            /\ vectorstore = req[p].vectors0

C3_Witness ==
    \E p \in Procs :
        /\ req[p].kind = "upload" /\ req[p].pc = "done"
        /\ file_extension(req[p].filename) \notin allowed_extensions
        /\ req[p].status = 400
        /\ document_store # {}
        /\ document_store = req[p].store0

\* C4: once an upload that passed validation has returned, its temporary
\* file does not exist, whatever the exit path.
C4_TempFileRemoved ==
    \A p \in Procs :
        (req[p].kind = "upload" /\ req[p].pc = "done"
            /\ extension_allowed(req[p].filename)) =>
            /\ req[p].temp_file_path \notin temp_files
            /\ temp_files = req[p].temp0

\* The hardest exit: the file was written, the record registered, and the
\* compensating delete in the except block raised.
C4_Witness ==
    \E p \in Procs :
        /\ req[p].kind = "upload" /\ req[p].pc = "done"
        /\ req[p].has_file_id
        /\ req[p].record_delete_raised
        /\ req[p].detail = InternalServerError
        /\ req[p].temp_file_path \notin temp_files

\* C5: after a delete request on the id f of a successful upload has
\* returned success, there is no record f and no chunk tagged f, and no
\* later listing contains f.
C5_DeletedStaysDeleted ==
    \A f \in deleted :
        /\ ~HasRecord(f)
        /\ ~HasChunks(f)
        /\ \A p \in Procs :
            (req[p].kind = "list" /\ req[p].pc = "done")
                => f \notin {d.id : d \in req[p].documents}

\* A listing made after f was deleted and another document was uploaded.
C5_Witness ==
    \E f \in deleted : \E p \in Procs :
        /\ req[p].kind = "list" /\ req[p].pc = "done" /\ req[p].status = 200
        /\ req[p].documents # {}
        /\ f \notin {d.id : d \in req[p].documents}

\* C6, as claimed: whenever no request is in progress, a record f exists if
\* and only if the vector index holds chunks tagged f.
C6_RecordIffChunks ==
    Quiescent => \A f \in FileIds \cup {0} : HasRecord(f) <=> HasChunks(f)

\* The chunks an upload added carry the id of the record it registered.
ChunksCarryRegisteredId(p) ==
    (req[p].kind = "upload" /\ req[p].success = "true") =>
        /\ req[p].file_id \notin {r.id : r \in req[p].store0}
        /\ [id |-> req[p].file_id, filename |-> req[p].filename] \in document_store
        /\ \A c \in vectorstore \ req[p].vectors0 : c.file_id = req[p].file_id

\* C6, amended: whenever no request is in progress, chunks tagged f exist
\* only if a record f exists, and a record f exists only if chunks tagged f
\* exist or a delete_document_record call on f raised; and the chunks an
\* upload adds carry exactly the id of the record that upload registered.
C6_RecordIffChunksUnlessFaulted ==
    /\ Quiescent =>
        \A f \in FileIds \cup {0} :
            /\ HasChunks(f) => HasRecord(f)
            /\ (HasRecord(f) /\ f \notin delete_faulted)
                   => HasChunks(f)
    /\ \A p \in Procs : ChunksCarryRegisteredId(p)

C6_Witness ==
    /\ Quiescent
    /\ \E f, g \in FileIds :
        /\ f # g
        /\ HasRecord(f) /\ HasChunks(f)
        /\ ~HasRecord(g) /\ ~HasChunks(g) /\ g \in deleted

\* C10, as claimed: a failing delete request responds HTTP 500 with a detail
\* that carries the "index deletion failed" message when the vector-index
\* deletion failed, and the "index succeeded, record deletion failed"
\* message when the vector-index deletion succeeded and the record deletion
\* failed.
C10_DetailTellsFailuresApart ==
    \A p \in Procs :
        (req[p].kind = "delete" /\ req[p].pc = "done") =>
            /\ req[p].chroma_delete_success = "false" =>
                  /\ req[p].status = 500
                  /\ Carries(req[p].detail, ChromaDeleteFailedDetail)
            /\ (req[p].chroma_delete_success = "true"
                    /\ req[p].record_delete_raised) =>
                  /\ req[p].status = 500
                  /\ Carries(req[p].detail, RecordDeleteFailedDetail)

\* The rows recorded for session s, in the order they were recorded.
RecordedTurns(s) == SelectSeq(application_logs, LAMBDA r : r.session_id = s)

\* h is the history of session s: two messages per recorded turn, the
\* turn's question as a human message and then its answer as an ai message,
\* turn after turn in the order recorded.
IsHistoryOf(h, s) ==
    LET rows == RecordedTurns(s)
    IN  /\ Len(h) = 2 * Len(rows)
        /\ \A k \in 1..Len(rows) :
            /\ h[2 * k - 1] = [role |-> "human", content |-> rows[k].user_query]
            /\ h[2 * k] = [role |-> "ai", content |-> rows[k].gpt_response]

\* The session ids of the log, the ones a client may send, and one no
\* request ever used.
SessionIds ==
    {application_logs[i].session_id : i \in 1..Len(application_logs)}
        \cup {<<>>, <<"s", "1">>, <<"s", "2">>}
        \cup {uuid4(n) : n \in 1..uuids}

\* C7: for a session with N recorded turns get_history returns exactly 2N
\* messages, the (human, ai) pair of each turn in the order the turns were
\* recorded; a session with no turn yields the empty sequence; turns of
\* other sessions never appear.
C7_HistoryIsTurnsInOrder ==
    /\ \A s \in SessionIds :
        IsHistoryOf(get_chat_history(application_logs, s), s)
    /\ \A p \in Procs :
        chat[p].pc \in {"invoke", "persist"}
            => IsHistoryOf(chat[p].chat_history, chat[p].session_id)

\* A request has fetched the four messages of a session whose two turns
\* were recorded at different seconds, with different questions.
C7_Witness ==
    \E p \in Procs :
        /\ chat[p].pc = "invoke"
        /\ Len(chat[p].chat_history) = 4
        /\ chat[p].chat_history[1].content # chat[p].chat_history[3].content
        /\ Len(application_logs) = 2
        /\ application_logs[1].created_at < application_logs[2].created_at

\* The answered turns of session s, in the order they returned.
AnsweredTurns(s) == SelectSeq(turns, LAMBDA t : t.session_id = s)

\* C8: a chat request sent with session_id s, started after turns of s
\* returned, invokes the pipeline with a history holding each of those
\* turns as a (human, ai) pair, in the order the turns returned.
C8_FollowUpSeesEarlierTurns ==
    \A p \in Procs :
        (chat[p].pc = "persist" /\ chat[p].given.present) =>
            LET mine == AnsweredTurns(chat[p].given.value)
                h == chat[p].chat_history
            IN  /\ Len(h) >= 2 * Len(mine)
                /\ \A k \in 1..Len(mine) :
                    /\ h[2 * k - 1] = [role |-> "human", content |-> mine[k].question]
                    /\ h[2 * k] = [role |-> "ai", content |-> mine[k].answer]

\* The pipeline has been invoked for the third request of a session that
\* began without a session_id and went on with the generated one.
C8_Witness ==
    \E p \in Procs :
        /\ chat[p].pc = "persist"
        /\ chat[p].given = [present |-> TRUE, value |-> uuid4(1)]
        /\ Len(AnsweredTurns(uuid4(1))) = 2
        /\ ~turns[1].given.present
        /\ Len(chat[p].chat_history) = 4

\* C9, as claimed: two chat requests that carry no session_id are answered
\* under different generated session ids, and a request that supplies a
\* session_id is processed, logged and answered under the supplied one.
C9_SessionIdGeneratedOrKept ==
    /\ \A i, j \in 1..Len(turns) :
        (i # j /\ ~turns[i].given.present /\ ~turns[j].given.present)
            => turns[i].session_id # turns[j].session_id
    /\ \A i \in 1..Len(turns) :
        turns[i].given.present =>
            /\ turns[i].session_id = turns[i].given.value
            /\ application_logs[i].session_id = turns[i].given.value
    /\ \A p \in Procs :
        (chat[p].pc # "idle" /\ chat[p].given.present)
            => chat[p].session_id = chat[p].given.value

\* What holds of the chat log while a chat request runs and when it has
\* returned: unchanged until the pipeline has answered and on every 500; one
\* more entry, the request's own, on success.
ChatLogFollowsRequest(p) ==
    /\ chat[p].pc \in {"history", "invoke", "persist"}
           => application_logs = chat[p].logs0
    /\ (chat[p].pc = "done" /\ chat[p].status = 500)
           => application_logs = chat[p].logs0
    /\ (chat[p].pc = "done" /\ chat[p].status = 200) =>
           /\ Len(application_logs) = Len(chat[p].logs0) + 1
           /\ SubSeq(application_logs, 1, Len(chat[p].logs0)) = chat[p].logs0
           /\ LET e == application_logs[Len(application_logs)]
              IN  /\ e.session_id = chat[p].session_id
                  /\ e.session_id = chat[p].response.session_id
                  /\ e.user_query = chat[p].question
                  /\ e.gpt_response = chat[p].response.answer
                  /\ e.model = chat[p].response.model
                  /\ e.model = chat[p].model
    /\ chat[p].pc = "done" => chat[p].status \in {200, 500}

\* The entries of the log stay as they are: a step only appends.
ChatLogOnlyGrows ==
    /\ Len(application_logs') >= Len(application_logs)
    /\ SubSeq(application_logs', 1, Len(application_logs)) = application_logs

\* C11: a chat request appends its entry only after the pipeline has
\* answered; a request that fails responds 500 and leaves the chat log as
\* it was; a request that succeeds has appended exactly one entry, holding
\* its session_id, question, answer and model; no step modifies or deletes
\* an entry.
C11_LogAppendedOnlyOnSuccess ==
    /\ [](\A p \in Procs : ChatLogFollowsRequest(p))
    /\ [][ChatLogOnlyGrows]_vars

\* A request has succeeded after an earlier one was logged: the log holds
\* the earlier entry and then this request's own.
C11_Witness ==
    \E p \in Procs :
        /\ chat[p].pc = "done" /\ chat[p].status = 200
        /\ Len(chat[p].logs0) = 1
        /\ Len(application_logs) = 2
        /\ application_logs[2].user_query = chat[p].question
        /\ application_logs[1].user_query # chat[p].question

\* C12: validation and the indexer's dispatch accept the same files: an
\* upload that passed the extension check has a temporary file that
\* load_and_split_document dispatches to a content loader, never to the
\* unsupported-file-type error.
C12_AcceptedUploadHasLoader ==
    \A p \in Procs :
        (/\ req[p].kind = "upload"
         /\ req[p].pc \in {"index", "compensate", "except", "finally", "done"}
         /\ extension_allowed(req[p].filename)
         /\ req[p].success # "unset")
            => loader_for(req[p].temp_file_path) # "ValueError"

\* Every request has returned its response.
AllReturned == \A p \in Procs : req[p].pc \in {"idle", "done"}

\* C13 as stated: under every interleaving of fault-free upload and delete
\* requests, once all have returned no chunk is tagged with a file_id that
\* has no record.
C13_NoOrphanChunksWhenReturned ==
    AllReturned => \A f \in FileIds : HasChunks(f) => HasRecord(f)

\* C13, amended: once all have returned, a chunk tagged with a file_id that
\* has no record belongs to an upload that a delete request naming its
\* file_id raced: the delete was in progress at some moment between the
\* upload's insert_document_record and its index_document_to_chroma.
C13_OrphanChunksOnlyWhenRaced ==
    AllReturned => \A f \in FileIds : (HasChunks(f) /\ ~HasRecord(f)) => f \in raced

\* An upload and a delete of its file_id ran at the same time without the
\* race: both have answered 200 and neither chunks nor record are left.
C13_Witness ==
    /\ AllReturned
    /\ ~may_fault
    /\ \E p \in Procs, q \in Procs :
        /\ req[p].kind = "upload" /\ req[p].pc = "done" /\ req[p].status = 200
        /\ req[q].kind = "delete" /\ req[q].pc = "done" /\ req[q].status = 200
        /\ req[q].file_id = req[p].file_id
        /\ req[p].file_id \notin raced
        /\ ~HasChunks(req[p].file_id) /\ ~HasRecord(req[p].file_id)

====
